---- MODULE Spec2Model ----
(***************************************************************************)
(* State-machine model of the ceremony data clock consensus engine's sync  *)
(* handlers (node.go): handleSync, handleClockFramesResponse and           *)
(* handleClockFramesRequest.                                               *)
(*                                                                         *)
(* Every pub/sub subscription (topic) is driven by its own task; a task    *)
(* takes the next message of its topic and runs handleSync on it, one      *)
(* statement group per step.  The prover tries, the clock store and the    *)
(* pub/sub layer live outside node.go and are modelled by their contracts. *)
(***************************************************************************)
EXTENDS Integers, Sequences, FiniteSets, TLC

\* ---------------------------------------------------------------- bounds
\* Longest response batch.
MaxBatch == 2
\* Largest frame number carried by a response frame.
MaxFrameNo == 2
\* Finalized chains end at a height up to ShortFin, or near LongFin.
ShortFin == 2
LongFin == 34
\* Candidate trees: children of the last finalized frame, and levels.
MaxFan == 2
MaxDepth == 2
\* The environment's failing call is one of the first MaxFaultOp calls.
MaxFaultOp == 6
\* Longest response batch when two batches are handled concurrently.
MaxConcBatch == 1
\* Most aggregate proofs a frame carries.
MaxProofs == 2

\* ------------------------------------------------------------- vocabulary
Nil == "nil"
Self == "self"
Target == "P1"
Other == "P2"
Peers == {Self, Target, Other}
Provers == {"A", "B"}
ProverSeq == <<"A", "B">>
Filter == "f"

SyncStatusNotSyncing == "NotSyncing"
SyncStatusAwaitingResponse == "AwaitingResponse"
SyncStatusSynchronizing == "Synchronizing"

ClockFrameType == "ClockFrame"
ClockFramesResponseType == "ClockFramesResponse"
ClockFramesRequestType == "ClockFramesRequest"
ProvingKeyAnnouncementType == "ProvingKeyAnnouncement"
KeyBundleAnnouncementType == "KeyBundleAnnouncement"
ProvingKeyRequestType == "ProvingKeyRequest"
\* A type URL that none of the handlers is for.
UnknownType == "Unknown"

\* Topic construction: append(append([]byte{}, e.filter...), peerID...).
Broadcast == <<Filter>>
PeerTopic(peerID) == <<Filter, peerID>>
Topics == {Broadcast} \cup {PeerTopic(p) : p \in Peers \ {Self}}

Min(a, b) == IF a <= b THEN a ELSE b
Max(a, b) == IF a >= b THEN a ELSE b

\* ------------------------------------------------------------ prover trie
\* RollingFrecencyCritbitTrie as a mapping prover -> (earliest, latest, count).
EmptyEntry == [earliest |-> 0, latest |-> 0, count |-> 0]
EmptyTrie == [p \in Provers |-> EmptyEntry]

TrieGet(trie, key) == trie[key]

TrieAdd(trie, key, frameNumber) ==
  [trie EXCEPT ![key] =
     IF @.count = 0
       THEN [earliest |-> frameNumber, latest |-> frameNumber, count |-> 1]
       ELSE [earliest |-> Min(@.earliest, frameNumber),
             latest |-> Max(@.latest, frameNumber),
             count |-> @.count + 1]]

\* Serialize writes the stored entries in key order; absent keys are not written.
RECURSIVE SerializeFrom(_, _)
SerializeFrom(trie, i) ==
  IF i > Len(ProverSeq) THEN <<>>
  ELSE LET k == ProverSeq[i]
           rest == SerializeFrom(trie, i + 1)
       IN IF trie[k].count = 0 THEN rest
          ELSE <<<<k, trie[k].earliest, trie[k].latest, trie[k].count>>>> \o rest

Serialize(trie) == SerializeFrom(trie, 1)

Deserialize(bytes) ==
  [p \in Provers |->
     IF \E i \in 1..Len(bytes) : bytes[i][1] = p
       THEN LET i == CHOOSE j \in 1..Len(bytes) : bytes[j][1] = p
            IN [earliest |-> bytes[i][2], latest |-> bytes[i][3], count |-> bytes[i][4]]
       ELSE EmptyEntry]

\* ------------------------------------------------------------------ frames
\* A clock frame with the values its accessors derive: GetAddress (prover),
\* GetSelector (selector), GetParentSelectorAndDistance (parentSelector, distance).
\* inputLen is len(frame.Input) and aggregateProofs is len(frame.AggregateProofs);
\* a frame made here has the 516 bytes before the commitments and no proof.
MkFrame(n, prover, sel, parent, dist) ==
  [filter |-> Filter, frameNumber |-> n, prover |-> prover,
   selector |-> sel, parentSelector |-> parent, distance |-> dist,
   inputLen |-> 516, aggregateProofs |-> 0]

\* The frame f with an input of inputLen bytes and nProofs aggregate proofs.
WithProofs(f, inputLen, nProofs) ==
  [f EXCEPT !.inputLen = inputLen, !.aggregateProofs = nProofs]

NoFrame == MkFrame(0, Nil, <<>>, <<>>, 0)

\* Frames a peer may put in a response batch.
ResponseFrames ==
  {MkFrame(n, p, <<"r", p, n>>, <<n - 1>>, IF p = "A" THEN 1 ELSE 2) :
     n \in 1..MaxFrameNo, p \in Provers}

\* The steps of the per-frame pipeline that can fail for a reason other than
\* trie membership: GetAddress, VerifyDataClockFrame and the aggregate proof
\* checks, GetParentSelectorAndDistance, NewTransaction,
\* PutCandidateDataClockFrame, Commit.
FaultKinds == {"address", "verify", "selector", "newtxn", "put", "commit"}

\* The calls that can fail before the first frame is taken up, at position 0
\* of the batch: e.frameProverTrie.Serialize and trieCopy.Deserialize.
SnapshotFaults == {"serialize", "deserialize"}

RECURSIVE SeqsUpTo(_, _)
SeqsUpTo(S, n) ==
  IF n = 0 THEN {<<>>}
  ELSE LET shorter == SeqsUpTo(S, n - 1)
       IN shorter \cup {Append(s, x) : s \in {q \in shorter : Len(q) = n - 1}, x \in S}

\* A transport message as handleSync sees it.  envOk: message.Data and the
\* payload unmarshal; payloadOk: any.UnmarshalTo succeeds in the handler.
\* faultAt/faultKind: the environment's one failing call (0 with "none": no
\* call fails; 0 with a snapshot fault: the copy of the trie fails).
\* provingKeyBytes is the field of a ProvingKeyRequest, empty in a message
\* made here.
MkMsg(from, tag, envOk, payloadOk, frames, faultAt, faultKind, reqFrom, reqTo) ==
  [from |-> from, tag |-> tag, envOk |-> envOk, payloadOk |-> payloadOk,
   clockFrames |-> frames, faultAt |-> faultAt, faultKind |-> faultKind,
   fromFrameNumber |-> reqFrom, toFrameNumber |-> reqTo,
   provingKeyBytes |-> <<>>]

ResponseMsgs ==
  {MkMsg(from, ClockFramesResponseType, TRUE, TRUE, fs, 0, "none", 0, 0) :
     from \in Peers, fs \in SeqsUpTo(ResponseFrames, MaxBatch)}
  \cup
  UNION {{MkMsg(Target, ClockFramesResponseType, TRUE, TRUE, fs, k, kind, 0, 0) :
            k \in 1..Len(fs), kind \in FaultKinds} :
         fs \in SeqsUpTo(ResponseFrames, MaxBatch)}
  \cup
  {MkMsg(Target, ClockFramesResponseType, TRUE, TRUE, fs, 0, kind, 0, 0) :
     fs \in SeqsUpTo(ResponseFrames, MaxBatch), kind \in SnapshotFaults}
  \cup
  {MkMsg(Target, ClockFramesResponseType, ok[1], ok[2], <<>>, 0, "none", 0, 0) :
     ok \in {<<FALSE, TRUE>>, <<TRUE, FALSE>>}}

\* ------------------------------------------------------------ uint64
\* A uint64 v is written as the integer r with v = r mod 2^64 and
\* -2^31 <= r < 2^31: r >= 0 stands for v = r, r < 0 for v = 2^64 + r.  For
\* such r, the sum and the difference of two of them taken modulo 2^64 are
\* written by the integer sum and difference, and the unsigned order puts every
\* negative r above every non-negative one.
U64Less(a, b) == IF (a < 0) = (b < 0) THEN a < b ELSE b < 0
U64Leq(a, b) == a = b \/ U64Less(a, b)
U64Greater(a, b) == U64Less(b, a)

\* ------------------------------------------------------------ clock store
\* GetDataClockFrame(filter, frameNumber): the finalized frame, if any.
HasDataClockFrame(fin, filter, n) ==
  \E f \in fin : f.filter = filter /\ f.frameNumber = n

GetDataClockFrame(fin, filter, n) ==
  CHOOSE f \in fin : f.filter = filter /\ f.frameNumber = n

\* The candidate with the least (distance, selector) key of a non-empty set
\* whose members differ in distance.
LeastDistance(S) == CHOOSE f \in S : \A g \in S : f.distance <= g.distance

RECURSIVE SortByDistance(_)
SortByDistance(S) ==
  IF S = {} THEN <<>>
  ELSE LET f == LeastDistance(S) IN <<f>> \o SortByDistance(S \ {f})

\* RangeCandidateDataClockFrames(filter, parent, frameNumber): what the
\* iterator yields from First() to the end.
RangeCandidateDataClockFrames(cand, filter, parent, n) ==
  SortByDistance({f \in cand : /\ f.filter = filter
                               /\ f.parentSelector = parent
                               /\ f.frameNumber = n})

\* Store contents.  The finalized chain 0..top; the frame of height h has
\* selector <<h>>.
FinalizedChain(top) ==
  {MkFrame(h, "A", <<h>>, <<h - 1>>, 0) : h \in 0..top}

\* A tree of candidates under the frame (sel, h): `fan` children, the child
\* numbered c having distance fan + 1 - c and, below it, c children of its own.
RECURSIVE CandidateTree(_, _, _, _)
CandidateTree(sel, h, fan, depth) ==
  IF depth = 0 THEN {}
  ELSE UNION {{MkFrame(h + 1, "A", Append(sel, c), sel, fan + 1 - c)}
                \cup CandidateTree(Append(sel, c), h + 1, c, depth - 1) :
              c \in 1..fan}

FinTops == (-1..ShortFin) \cup {LongFin - 4, LongFin}

\* Requests a peer may send: from 0, 2 or 2^64 - 1; to 0, below from, or from
\* plus a width around the clamp.
RequestTos(from) == {0} \cup {from + d : d \in {-1, 0, 1, 2, 31, 32, 33}}

RequestMsgs ==
  UNION {{MkMsg(Target, ClockFramesRequestType, TRUE, TRUE, <<>>, k,
                IF k = 0 THEN "none" ELSE "call", from, to) :
            k \in 0..MaxFaultOp, to \in RequestTos(from)} :
         from \in {0, 2, -1}}
  \cup
  {MkMsg(Target, ClockFramesRequestType, TRUE, FALSE, <<>>, 0, "none", 0, 0)}

\* What publishMessage sends: a frame, or a ClockFramesResponse.
PubFrame(topic, f) ==
  [topic |-> topic, type |-> ClockFrameType, frame |-> f,
   fromFrameNumber |-> 0, toFrameNumber |-> 0, clockFrames |-> <<>>]
PubResponse(topic, from, to, frames) ==
  [topic |-> topic, type |-> ClockFramesResponseType, frame |-> NoFrame,
   fromFrameNumber |-> from, toFrameNumber |-> to, clockFrames |-> frames]

\* ------------------------------------------------------------------- state
VARIABLES
  syncingStatus,        \* e.syncingStatus
  syncingTarget,        \* e.syncingTarget
  frame,                \* e.frame, the local head
  latestFrameReceived,  \* e.latestFrameReceived
  lastFrameReceivedAt,  \* e.lastFrameReceivedAt
  now,                  \* the wall clock read by time.Now()
  frameProverTrie,      \* e.frameProverTrie
  frameSeenProverTrie,  \* e.frameSeenProverTrie
  finalized,            \* clock store: finalized frames, one per (filter, number)
  candidates,           \* clock store: candidate frames
  subscriptions,        \* topics handleSync is subscribed on
  inbox,                \* per topic: messages in flight to its task
  pc,                   \* per task: position in the handler
  msg,                  \* per task: the message being handled
  ret,                  \* per task: what the last handleSync returned
  herr,                 \* per task: what the handler it called returned
  rs,                   \* per task: locals of handleClockFramesResponse
  rq,                   \* per task: locals of handleClockFramesRequest
  pk,                   \* per task: locals of handleProvingKeyRequest
  published,            \* per task: publishes made by the current invocation
  hist,                 \* per task: record of what the current invocation did
  keyStore,             \* key store: proving keys with an inclusion proof
  stagedKeyStore        \* key store: staged proving keys

engine == <<syncingStatus, syncingTarget, frame, latestFrameReceived,
            lastFrameReceivedAt, frameProverTrie, frameSeenProverTrie>>
store == <<finalized, candidates>>
keys == <<keyStore, stagedKeyStore>>
vars == <<syncingStatus, syncingTarget, frame, latestFrameReceived,
          lastFrameReceivedAt, now, frameProverTrie, frameSeenProverTrie,
          finalized, candidates, subscriptions, inbox, pc, msg, ret, herr, rs,
          rq, pk, published, hist, keyStore, stagedKeyStore>>

NoMsg == MkMsg(Nil, Nil, FALSE, FALSE, <<>>, 0, "none", 0, 0)

RsInit == [i |-> 0, trieCopy |-> EmptyTrie, txn |-> "none"]
RqInit == [from |-> 0, to |-> 0, searchSpan |-> <<>>, nextSpan |-> <<>>,
           si |-> 0, currentNumber |-> 0, noMoreFinalized |-> FALSE,
           iter |-> <<>>, iterOpen |-> FALSE, ops |-> 0]
\* provingKey: the local of line 450, Nil while unbound; ops: the fallible
\* calls made so far.
PkInit == [provingKey |-> Nil, ops |-> 0]
HistInit == [entered |-> FALSE, checked |-> <<>>, committed |-> <<>>,
             adds |-> <<>>, lookups |-> 0, statusAtFrame |-> <<>>,
             entry |-> "none", calls |-> <<>>, pre |-> <<>>,
             nilDeref |-> FALSE]

\* What an invocation finds on entry: the engine's fields, the clock store
\* and the subscriptions.
Pre == [engine |-> engine, store |-> store, subscriptions |-> subscriptions]

\* Entries a prover can have in the trie before a batch arrives.
TrieEntries ==
  {EmptyEntry} \cup
  {[earliest |-> e, latest |-> e, count |-> 1] : e \in 0..(MaxFrameNo - 1)}

InitTasks ==
  /\ pc = [t \in Topics |-> "idle"]
  /\ msg = [t \in Topics |-> NoMsg]
  /\ ret = [t \in Topics |-> "none"]
  /\ herr = [t \in Topics |-> "none"]
  /\ rs = [t \in Topics |-> RsInit]
  /\ rq = [t \in Topics |-> RqInit]
  /\ pk = [t \in Topics |-> PkInit]
  /\ published = [t \in Topics |-> <<>>]
  /\ hist = [t \in Topics |-> HistInit]
  /\ now = 1
  /\ lastFrameReceivedAt = 0
  /\ latestFrameReceived = 0

\* One response in flight on the broadcast topic, any engine state before it.
InitSync ==
  /\ InitTasks
  /\ keyStore = {}
  /\ stagedKeyStore = {}
  /\ syncingStatus \in {SyncStatusNotSyncing, SyncStatusAwaitingResponse}
  /\ syncingTarget = Target
  /\ frame \in {0, 1}
  /\ frameProverTrie \in
       {[p \in Provers |-> IF p = "A" THEN a ELSE b] :
          a \in TrieEntries, b \in {EmptyEntry, [earliest |-> 0, latest |-> 0, count |-> 1]}}
  /\ frameSeenProverTrie = EmptyTrie
  /\ finalized = {}
  /\ candidates = {}
  /\ subscriptions = {Broadcast}
  /\ \E m \in ResponseMsgs :
       inbox = [t \in Topics |-> IF t = Broadcast THEN <<m>> ELSE <<>>]

\* ------------------------------------------------------------- handleSync
\* The wrapped error of a handler, or nil.
Wrap(err) == IF err = "nil" THEN "nil" ELSE "error"

\* handleSync, lines 72-141: drop the local peer's own messages, unmarshal the
\* envelope and its payload, dispatch on the type URL.  The handler called
\* runs in the following steps of the same task.
\* The switch of lines 96-138 with a default case calling handleClockFrameData.
DispatchWithDefault(typeUrl) ==
  CASE typeUrl = ClockFramesResponseType -> "resp"
    [] typeUrl = ClockFramesRequestType -> "req"
    [] typeUrl = ProvingKeyAnnouncementType -> "proving_key"
    [] typeUrl = KeyBundleAnnouncementType -> "key_bundle"
    [] OTHER -> "clock_frame"

\* Lines 96-138: the handler the switch on any.TypeUrl calls, by the position
\* its call puts the task in; "idle" when no case matches.
Dispatch(typeUrl) ==
  CASE typeUrl = ClockFrameType -> "clock_frame"
    [] typeUrl = ClockFramesResponseType -> "resp"
    [] typeUrl = ClockFramesRequestType -> "req"
    [] typeUrl = ProvingKeyAnnouncementType -> "proving_key"
    [] typeUrl = KeyBundleAnnouncementType -> "key_bundle"
    [] OTHER -> "idle"

\* The comparison of lines 81, 148, 419 and 509 left out.
IsNeverLocalPeer(peerID) == FALSE

\* Lines 81, 148, 419 and 509: bytes.Equal(peerID, e.pubSub.GetPeerID()).
IsLocalPeer(peerID) == peerID = Self

HandleSync(t) ==
  /\ pc[t] = "idle"
  /\ t \in subscriptions
  /\ inbox[t] # <<>>
  /\ LET m == Head(inbox[t])
         next == IF IsLocalPeer(m.from) \/ ~m.envOk THEN "idle" ELSE Dispatch(m.tag)
     IN /\ inbox' = [inbox EXCEPT ![t] = Tail(@)]
        /\ msg' = [msg EXCEPT ![t] = m]
        /\ pc' = [pc EXCEPT ![t] = next]
        /\ ret' = [ret EXCEPT ![t] =
                     IF next # "idle" THEN "running"
                     ELSE IF ~IsLocalPeer(m.from) /\ ~m.envOk THEN "error" ELSE "nil"]
        /\ herr' = [herr EXCEPT ![t] = "none"]
  /\ rs' = [rs EXCEPT ![t] = RsInit]
  /\ rq' = [rq EXCEPT ![t] = RqInit]
  /\ pk' = [pk EXCEPT ![t] = PkInit]
  /\ published' = [published EXCEPT ![t] = <<>>]
  /\ hist' = [hist EXCEPT ![t] =
                [HistInit EXCEPT !.entry = "handleSync", !.pre = Pre]]
  /\ now' = now + 1
  /\ UNCHANGED <<keys, engine, store, subscriptions>>

\* ----------------------------------------------- handleClockFramesResponse
\* The gate of line 152 left out.
FromAnyPeer(peerID, target) == TRUE

\* Line 152: the response comes from the sync target.
FromSyncTarget(peerID, target) == peerID = target

\* The deferred function of line 163 left out.
DeferredMissing(status) == status

\* Line 163: the deferred function's assignment to e.syncingStatus.
DeferredStatus(status) == SyncStatusNotSyncing

\* The check of line 187 without its comparison of frame numbers.
ProverInTrieCountOnly(entry, frameNumber) == entry.count # 0

\* Line 187, negated: the prover is in the trie with an earlier frame.
ProverInTrie(entry, frameNumber) ==
  ~(entry.count = 0 \/ entry.earliest >= frameNumber)

\* The environment makes the call `kind` fail for the frame at position i.
Fails(m, i, kind) == m.faultAt = i /\ m.faultKind = kind

\* A return from inside the handler after line 163: the deferred function runs.
RespReturn(t, err) ==
  /\ pc' = [pc EXCEPT ![t] = "idle"]
  /\ ret' = [ret EXCEPT ![t] = Wrap(err)]
  /\ herr' = [herr EXCEPT ![t] = err]
  /\ syncingStatus' = DeferredStatus(syncingStatus)

\* Lines 148-163.
RespEnter(t) ==
  /\ pc[t] = "resp"
  /\ IF IsLocalPeer(msg[t].from) \/ ~FromSyncTarget(msg[t].from, syncingTarget)
       THEN /\ pc' = [pc EXCEPT ![t] = "idle"]
            /\ ret' = [ret EXCEPT ![t] = Wrap("nil")]
            /\ herr' = [herr EXCEPT ![t] = "nil"]
            /\ hist' = [hist EXCEPT
                          ![t].calls = Append(@, "handleClockFramesResponse")]
            /\ UNCHANGED syncingStatus
       ELSE /\ syncingStatus' = SyncStatusSynchronizing
            /\ pc' = [pc EXCEPT ![t] = "resp_decode"]
            /\ hist' = [hist EXCEPT
                          ![t].entered = TRUE,
                          ![t].calls = Append(@, "handleClockFramesResponse")]
            /\ UNCHANGED <<ret, herr>>
  /\ UNCHANGED <<keys, pk, syncingTarget, frame, latestFrameReceived, lastFrameReceivedAt,
                 now, frameProverTrie, frameSeenProverTrie, store, subscriptions,
                 inbox, msg, rs, rq, published>>

\* Lines 165-178: unmarshal the response, copy the prover trie.  Each of
\* UnmarshalTo (165-168), Serialize (170-173) and Deserialize (175-178) returns
\* its wrapped error when it fails.
RespSnapshot(t) ==
  /\ pc[t] = "resp_decode"
  /\ IF ~msg[t].payloadOk
       THEN RespReturn(t, "unmarshal") /\ UNCHANGED rs
       ELSE IF Fails(msg[t], 0, "serialize")
         THEN RespReturn(t, "serialize") /\ UNCHANGED rs
         ELSE IF Fails(msg[t], 0, "deserialize")
           THEN RespReturn(t, "deserialize") /\ UNCHANGED rs
           ELSE /\ rs' = [rs EXCEPT
                            ![t].trieCopy = Deserialize(Serialize(frameProverTrie)),
                            ![t].i = 1]
                /\ pc' = [pc EXCEPT ![t] = "resp_frame"]
                /\ UNCHANGED <<ret, herr, syncingStatus>>
  /\ UNCHANGED <<keys, pk, syncingTarget, frame, latestFrameReceived, lastFrameReceivedAt,
                 now, frameProverTrie, frameSeenProverTrie, store, subscriptions,
                 inbox, msg, rq, published, hist>>

\* Lines 180-192 and 411: the loop head, GetAddress and the membership check.
RespCheck(t) ==
  /\ pc[t] = "resp_frame"
  /\ LET m == msg[t]
         i == rs[t].i
         f == m.clockFrames[i]
         entry == TrieGet(rs[t].trieCopy, f.prover)
     IN IF i > Len(m.clockFrames)
          THEN RespReturn(t, "nil") /\ UNCHANGED hist
          ELSE IF Fails(m, i, "address")
            THEN RespReturn(t, "address") /\ UNCHANGED hist
            ELSE /\ hist' = [hist EXCEPT
                               ![t].checked = Append(@, entry),
                               ![t].statusAtFrame = Append(@, syncingStatus)]
                 /\ IF ~ProverInTrie(entry, f.frameNumber)
                      THEN RespReturn(t, "prover not in trie")
                      ELSE /\ pc' = [pc EXCEPT ![t] = "resp_verify"]
                           /\ UNCHANGED <<ret, herr, syncingStatus>>
  /\ UNCHANGED <<keys, pk, syncingTarget, frame, latestFrameReceived, lastFrameReceivedAt,
                 now, frameProverTrie, frameSeenProverTrie, store, subscriptions,
                 inbox, msg, rs, rq, published>>

\* The verification of lines 202-375 with its errors ignored.
RespVerifyIgnored(t) ==
  /\ pc[t] = "resp_verify"
  /\ pc' = [pc EXCEPT ![t] = "resp_persist"]
  /\ UNCHANGED <<keys, pk, syncingStatus, syncingTarget, frame, latestFrameReceived,
                 lastFrameReceivedAt, now, frameProverTrie, frameSeenProverTrie,
                 store, subscriptions, inbox, msg, ret, herr, rs, rq, published, hist>>

\* Go's integer division: the quotient truncated toward zero.
GoDiv(a, b) == IF a >= 0 THEN a \div b ELSE -((-a) \div b)

\* Lines 207-220: the number of 74-byte commitments the loop
\* `for i := 0; i < (len(frame.Input)-516)/74; i++` takes from the input.
CommitmentCount(inputLen) == Max(0, GoDiv(inputLen - 516, 74))

\* Lines 222 and 346: the loop over the proofs reads aggregateCommitments[i]
\* for each of them; the read is out of range from the proof numbered
\* CommitmentCount on, which panics.
ProofIndexOutOfRange(f) == f.aggregateProofs > CommitmentCount(f.inputLen)

\* A runtime panic inside the handler after line 163: the deferred function
\* runs while the stack unwinds, and the handler never returns.
RespPanic(t) ==
  /\ pc' = [pc EXCEPT ![t] = "panic"]
  /\ ret' = [ret EXCEPT ![t] = "panic"]
  /\ herr' = [herr EXCEPT ![t] = "panic"]
  /\ syncingStatus' = DeferredStatus(syncingStatus)

\* Lines 202-375: VerifyDataClockFrame, the aggregate commitments and proofs,
\* GetParentSelectorAndDistance.  The fault "verify" is an error returned by
\* VerifyDataClockFrame or by a decoding or a proof check of lines 207-361.
RespVerify(t) ==
  /\ pc[t] = "resp_verify"
  /\ LET m == msg[t]
         i == rs[t].i
     IN IF Fails(m, i, "verify")
          THEN RespReturn(t, "verify")
          ELSE IF ProofIndexOutOfRange(m.clockFrames[i])
            THEN RespPanic(t)
            ELSE IF Fails(m, i, "selector")
              THEN RespReturn(t, "selector")
              ELSE /\ pc' = [pc EXCEPT ![t] = "resp_persist"]
                   /\ UNCHANGED <<ret, herr, syncingStatus>>
  /\ UNCHANGED <<keys, pk, syncingTarget, frame, latestFrameReceived, lastFrameReceivedAt,
                 now, frameProverTrie, frameSeenProverTrie, store, subscriptions,
                 inbox, msg, rs, rq, published, hist>>

\* Lines 381-401: NewTransaction, PutCandidateDataClockFrame, Commit.  A failed
\* put or commit returns with the transaction neither committed nor aborted.
RespPersist(t) ==
  /\ pc[t] = "resp_persist"
  /\ LET m == msg[t]
         i == rs[t].i
         f == m.clockFrames[i]
     IN IF Fails(m, i, "newtxn")
          THEN RespReturn(t, "newtxn") /\ UNCHANGED <<rs, candidates, hist>>
          ELSE IF Fails(m, i, "put") \/ Fails(m, i, "commit")
            THEN /\ RespReturn(t, m.faultKind)
                 /\ rs' = [rs EXCEPT ![t].txn = "open"]
                 /\ UNCHANGED <<candidates, hist>>
            ELSE /\ candidates' = candidates \cup {f}
                 /\ rs' = [rs EXCEPT ![t].txn = "committed"]
                 /\ hist' = [hist EXCEPT ![t].committed = Append(@, f)]
                 /\ pc' = [pc EXCEPT ![t] = "resp_apply"]
                 /\ UNCHANGED <<ret, herr, syncingStatus>>
  /\ UNCHANGED <<keys, pk, syncingTarget, frame, latestFrameReceived, lastFrameReceivedAt,
                 now, frameProverTrie, frameSeenProverTrie, finalized,
                 subscriptions, inbox, msg, rq, published>>

\* Line 403: e.frame < frame.FrameNumber.
AheadOfHead(head, frameNumber) == head < frameNumber

\* The add of line 407 made with frame number 0 in place of the frame's.
AddToCopyAtZero(trieCopy, f) == TrieAdd(trieCopy, f.prover, 0)

\* Line 407: trieCopy.Add(prover, frame.FrameNumber).
AddToCopy(trieCopy, f) == TrieAdd(trieCopy, f.prover, f.frameNumber)

\* Lines 403-408: note the frame received, add the prover to both tries.
RespApply(t) ==
  /\ pc[t] = "resp_apply"
  /\ LET f == msg[t].clockFrames[rs[t].i]
     IN /\ IF AheadOfHead(frame, f.frameNumber)
             THEN /\ latestFrameReceived' = f.frameNumber
                  /\ lastFrameReceivedAt' = now
             ELSE UNCHANGED <<latestFrameReceived, lastFrameReceivedAt>>
        /\ rs' = [rs EXCEPT
                    ![t].trieCopy = AddToCopy(@, f),
                    ![t].i = @ + 1,
                    ![t].txn = "none"]
        /\ frameSeenProverTrie' = TrieAdd(frameSeenProverTrie, f.prover, f.frameNumber)
        /\ hist' = [hist EXCEPT ![t].adds = Append(@, <<f.prover, f.frameNumber>>)]
  /\ pc' = [pc EXCEPT ![t] = "resp_frame"]
  /\ UNCHANGED <<keys, pk, syncingStatus, syncingTarget, frame, now, frameProverTrie, store,
                 subscriptions, inbox, msg, ret, herr, rq, published>>

Response(t) ==
  \/ RespEnter(t)
  \/ RespSnapshot(t)
  \/ RespCheck(t)
  \/ RespVerify(t)
  \/ RespPersist(t)
  \/ RespApply(t)

\* One subscription, one response batch.
NextSync == \E t \in Topics : HandleSync(t) \/ Response(t)

SpecSync == InitSync /\ [][NextSync]_vars

\* ------------------------------------------------- inputs and proof counts
\* Input lengths around the 516 bytes before the commitments and around one
\* and two 74-byte commitments.
InputLens == {0, 515, 516, 517, 589, 590, 591, 664}

VerifyFrames ==
  {WithProofs(f, len, np) :
     f \in ResponseFrames, len \in InputLens, np \in 0..MaxProofs}

VerifyMsgs ==
  {MkMsg(Target, ClockFramesResponseType, TRUE, TRUE, <<f>>, k,
         IF k = 0 THEN "none" ELSE kind, 0, 0) :
     f \in VerifyFrames, k \in 0..1, kind \in FaultKinds}
  \cup
  {MkMsg(Target, ClockFramesResponseType, TRUE, TRUE, <<f>>, 0, kind, 0, 0) :
     f \in VerifyFrames, kind \in SnapshotFaults}

\* One single-frame response from the sync target, its prover in the trie.
InitVerify ==
  /\ InitTasks
  /\ keyStore = {}
  /\ stagedKeyStore = {}
  /\ syncingStatus = SyncStatusAwaitingResponse
  /\ syncingTarget = Target
  /\ frame = 0
  /\ frameProverTrie \in
       {[p \in Provers |-> e] : e \in {EmptyEntry, [earliest |-> 0, latest |-> 0, count |-> 1]}}
  /\ frameSeenProverTrie = EmptyTrie
  /\ finalized = {}
  /\ candidates = {}
  /\ subscriptions = {Broadcast}
  /\ \E m \in VerifyMsgs :
       inbox = [t \in Topics |-> IF t = Broadcast THEN <<m>> ELSE <<>>]

SpecVerify == InitVerify /\ [][NextSync]_vars

\* ------------------------------------------------ handleClockFramesRequest
\* Lines 571-574: the clamp of the requested range.
ClampTo(from, to) ==
  IF to = 0 \/ U64Greater(to - from, 32) THEN from + 31 ELSE to

\* Line 581: the loop condition.
ScanMore(searchSpan, from, currentNumber, to) ==
  Len(searchSpan) # 0 /\ U64Leq(from + currentNumber, to)

\* The environment makes the n-th fallible call of this invocation fail
\* (GetDataClockFrame with an error other than ErrNotFound, GetSelector,
\* publishMessage, RangeCandidateDataClockFrames, iter.Value).
CallFails(m, n) == m.faultAt # 0 /\ m.faultAt = n

\* The response of lines 557-562 echoing the request's range.
EchoResponse(topic, request) ==
  PubResponse(topic, request.fromFrameNumber, request.toFrameNumber, <<>>)

\* Lines 557-562: the response published when the base frame is not found.
EmptyResponse(topic, request) == PubResponse(topic, 0, 0, <<>>)

\* The appends of lines 621 and 663 putting the frame first.
PrependSpan(nextSpan, f) == <<f>> \o nextSpan

\* Lines 621 and 663: nextSpan = append(nextSpan, frame).
AppendSpan(nextSpan, f) == Append(nextSpan, f)

ReqReturn(t, err) ==
  /\ pc' = [pc EXCEPT ![t] = "idle"]
  /\ ret' = [ret EXCEPT ![t] = Wrap(err)]
  /\ herr' = [herr EXCEPT ![t] = err]

\* Lines 509-530: drop own requests, unmarshal, subscribe the per-peer topic.
ReqEnter(t) ==
  /\ pc[t] = "req"
  /\ IF IsLocalPeer(msg[t].from)
       THEN ReqReturn(t, "nil") /\ UNCHANGED subscriptions
       ELSE IF ~msg[t].payloadOk
         THEN ReqReturn(t, "unmarshal") /\ UNCHANGED subscriptions
         ELSE /\ subscriptions' = subscriptions \cup {PeerTopic(msg[t].from)}
              /\ pc' = [pc EXCEPT ![t] = "req_base"]
              /\ UNCHANGED <<ret, herr>>
  /\ hist' = [hist EXCEPT ![t].calls = Append(@, "handleClockFramesRequest")]
  /\ UNCHANGED <<keys, pk, engine, store, now, inbox, msg, rs, rq, published>>

\* Lines 532-579: look up the base frame; without one publish the empty
\* response and return; with one clamp the range and set up the scan.
ReqBase(t) ==
  /\ pc[t] = "req_base"
  /\ LET m == msg[t]
         from == m.fromFrameNumber
         n == rq[t].ops
         topic == PeerTopic(m.from)
     IN IF CallFails(m, n + 1)
          THEN /\ ReqReturn(t, "store")
               /\ rq' = [rq EXCEPT ![t].ops = n + 1]
               /\ hist' = [hist EXCEPT ![t].lookups = @ + 1]
               /\ UNCHANGED published
          ELSE IF ~HasDataClockFrame(finalized, Filter, from)
            THEN /\ rq' = [rq EXCEPT ![t].ops = n + 2]
                 /\ hist' = [hist EXCEPT ![t].lookups = @ + 1]
                 /\ IF CallFails(m, n + 2)
                      THEN ReqReturn(t, "publish") /\ UNCHANGED published
                      ELSE /\ ReqReturn(t, "nil")
                           /\ published' = [published EXCEPT ![t] =
                                Append(@, EmptyResponse(topic, m))]
            ELSE /\ rq' = [rq EXCEPT
                             ![t].ops = n + 1,
                             ![t].from = from,
                             ![t].to = ClampTo(from, m.toFrameNumber),
                             ![t].searchSpan =
                                <<GetDataClockFrame(finalized, Filter, from)>>,
                             ![t].noMoreFinalized = FALSE,
                             ![t].currentNumber = 1]
                 /\ hist' = [hist EXCEPT ![t].lookups = @ + 1]
                 /\ pc' = [pc EXCEPT ![t] = "req_loop"]
                 /\ UNCHANGED <<ret, herr, published>>
  /\ UNCHANGED <<keys, pk, engine, store, now, subscriptions, inbox, msg, rs>>

\* Lines 581-590 and 674: the head of the outer loop.
ReqLoop(t) ==
  /\ pc[t] = "req_loop"
  /\ IF ScanMore(rq[t].searchSpan, rq[t].from, rq[t].currentNumber, rq[t].to)
       THEN /\ rq' = [rq EXCEPT ![t].nextSpan = <<>>, ![t].si = 1]
            /\ pc' = [pc EXCEPT ![t] = "req_span"]
            /\ UNCHANGED <<ret, herr>>
       ELSE ReqReturn(t, "nil") /\ UNCHANGED rq
  /\ UNCHANGED <<keys, pk, engine, store, now, subscriptions, inbox, msg, rs, published, hist>>

\* Lines 591-624 and 670-671: the next frame s of the span, its selector, and
\* while finalized frames last the finalized frame above it.
ReqSpan(t) ==
  /\ pc[t] = "req_span"
  /\ LET m == msg[t]
         r == rq[t]
         n == r.ops
         s == r.searchSpan[r.si]
         topic == PeerTopic(m.from)
     IN IF r.si > Len(r.searchSpan)
          THEN /\ rq' = [rq EXCEPT ![t].currentNumber = @ + 1,
                                   ![t].searchSpan = r.nextSpan]
               /\ pc' = [pc EXCEPT ![t] = "req_loop"]
               /\ UNCHANGED <<ret, herr, published, hist>>
          ELSE IF CallFails(m, n + 1)
            THEN /\ ReqReturn(t, "selector")
                 /\ rq' = [rq EXCEPT ![t].ops = n + 1]
                 /\ UNCHANGED <<published, hist>>
            ELSE IF r.noMoreFinalized
              THEN /\ rq' = [rq EXCEPT ![t].ops = n + 1]
                   /\ pc' = [pc EXCEPT ![t] = "req_range"]
                   /\ UNCHANGED <<ret, herr, published, hist>>
              ELSE /\ hist' = [hist EXCEPT ![t].lookups = @ + 1]
                   /\ IF CallFails(m, n + 2)
                        THEN /\ ReqReturn(t, "store")
                             /\ rq' = [rq EXCEPT ![t].ops = n + 2]
                             /\ UNCHANGED published
                        ELSE IF ~HasDataClockFrame(finalized, s.filter, s.frameNumber + 1)
                          THEN /\ rq' = [rq EXCEPT ![t].ops = n + 2,
                                                   ![t].noMoreFinalized = TRUE]
                               /\ pc' = [pc EXCEPT ![t] = "req_range"]
                               /\ UNCHANGED <<ret, herr, published>>
                          ELSE LET f == GetDataClockFrame(finalized, s.filter,
                                                          s.frameNumber + 1)
                               IN IF CallFails(m, n + 3)
                                    THEN /\ ReqReturn(t, "publish")
                                         /\ rq' = [rq EXCEPT ![t].ops = n + 3]
                                         /\ UNCHANGED published
                                    ELSE /\ published' = [published EXCEPT ![t] =
                                              Append(@, PubFrame(topic, f))]
                                         /\ rq' = [rq EXCEPT
                                              ![t].ops = n + 3,
                                              ![t].nextSpan = AppendSpan(@, f),
                                              ![t].si = @ + 1]
                                         /\ UNCHANGED <<pc, ret, herr>>
  /\ UNCHANGED <<keys, pk, engine, store, now, subscriptions, inbox, msg, rs>>

\* Lines 626-641: open the iterator over the candidates above s.
ReqRange(t) ==
  /\ pc[t] = "req_range"
  /\ LET m == msg[t]
         r == rq[t]
         s == r.searchSpan[r.si]
     IN /\ hist' = [hist EXCEPT ![t].lookups = @ + 1]
        /\ IF CallFails(m, r.ops + 1)
             THEN /\ ReqReturn(t, "store")
                  /\ rq' = [rq EXCEPT ![t].ops = @ + 1]
             ELSE /\ rq' = [rq EXCEPT
                              ![t].ops = @ + 1,
                              ![t].iter = RangeCandidateDataClockFrames(
                                  candidates, s.filter, s.selector, s.frameNumber + 1),
                              ![t].iterOpen = TRUE]
                  /\ pc' = [pc EXCEPT ![t] = "req_iter"]
                  /\ UNCHANGED <<ret, herr>>
  /\ UNCHANGED <<keys, pk, engine, store, now, subscriptions, inbox, msg, rs, published>>

\* Lines 643-668: publish what the iterator yields, then close it.
ReqIter(t) ==
  /\ pc[t] = "req_iter"
  /\ LET m == msg[t]
         r == rq[t]
         topic == PeerTopic(m.from)
     IN IF r.iter = <<>>
          THEN /\ rq' = [rq EXCEPT ![t].iterOpen = FALSE, ![t].si = @ + 1]
               /\ pc' = [pc EXCEPT ![t] = "req_span"]
               /\ UNCHANGED <<ret, herr, published>>
          ELSE IF CallFails(m, r.ops + 1)
            THEN /\ ReqReturn(t, "value")
                 /\ rq' = [rq EXCEPT ![t].ops = @ + 1]
                 /\ UNCHANGED published
            ELSE IF CallFails(m, r.ops + 2)
              THEN /\ ReqReturn(t, "publish")
                   /\ rq' = [rq EXCEPT ![t].ops = @ + 2]
                   /\ UNCHANGED published
              ELSE /\ published' = [published EXCEPT ![t] =
                        Append(@, PubFrame(topic, Head(r.iter)))]
                   /\ rq' = [rq EXCEPT
                        ![t].ops = @ + 2,
                        ![t].nextSpan = AppendSpan(@, Head(r.iter)),
                        ![t].iter = Tail(@)]
                   /\ UNCHANGED <<pc, ret, herr>>
  /\ UNCHANGED <<keys, pk, engine, store, now, subscriptions, inbox, msg, rs, hist>>

Request(t) ==
  \/ ReqEnter(t)
  \/ ReqBase(t)
  \/ ReqLoop(t)
  \/ ReqSpan(t)
  \/ ReqRange(t)
  \/ ReqIter(t)

\* One request in flight on the broadcast topic, any store.
InitRange ==
  /\ InitTasks
  /\ keyStore = {}
  /\ stagedKeyStore = {}
  /\ syncingStatus = SyncStatusNotSyncing
  /\ syncingTarget = Target
  /\ frame = 0
  /\ frameProverTrie = EmptyTrie
  /\ frameSeenProverTrie = EmptyTrie
  /\ \E top \in FinTops, fan \in 0..MaxFan, depth \in 1..MaxDepth, fork \in BOOLEAN :
       /\ fan = 0 => depth = 1
       /\ top < 1 => ~fork
       /\ finalized = FinalizedChain(top)
       /\ candidates =
            (IF top >= 0 THEN CandidateTree(<<top>>, top, fan, depth) ELSE {})
            \cup (IF fork THEN CandidateTree(<<top - 1>>, top - 1, 1, 2) ELSE {})
  /\ subscriptions = {Broadcast}
  /\ \E m \in RequestMsgs :
       inbox = [t \in Topics |-> IF t = Broadcast THEN <<m>> ELSE <<>>]

NextRange == \E t \in Topics : HandleSync(t) \/ Request(t)

SpecRange == InitRange /\ [][NextRange]_vars

\* --------------------------------------------------------- two subscriptions
\* The sync target first sends a request on the broadcast topic, which makes
\* the engine subscribe handleSync on the per-peer topic (line 518), and then
\* a response batch on each of the two topics.  Each subscription has its own
\* task, so the two batches are handled concurrently.
ConcResponses ==
  {MkMsg(Target, ClockFramesResponseType, TRUE, TRUE, fs, 0, "none", 0, 0) :
     fs \in SeqsUpTo(ResponseFrames, MaxConcBatch)}

InitConc ==
  /\ InitTasks
  /\ keyStore = {}
  /\ stagedKeyStore = {}
  /\ syncingStatus = SyncStatusAwaitingResponse
  /\ syncingTarget = Target
  /\ frame = 0
  /\ frameProverTrie = [p \in Provers |-> [earliest |-> 0, latest |-> 0, count |-> 1]]
  /\ frameSeenProverTrie = EmptyTrie
  /\ finalized = FinalizedChain(0)
  /\ candidates = CandidateTree(<<0>>, 0, 1, 1)
  /\ subscriptions = {Broadcast}
  /\ \E m1, m2 \in ConcResponses :
       inbox = [t \in Topics |->
                  IF t = Broadcast
                    THEN <<MkMsg(Target, ClockFramesRequestType, TRUE, TRUE, <<>>,
                                 0, "none", 0, 1), m1>>
                    ELSE IF t = PeerTopic(Target) THEN <<m2>> ELSE <<>>]

NextConc == \E t \in Topics : HandleSync(t) \/ Request(t) \/ Response(t)

SpecConc == InitConc /\ [][NextConc]_vars

\* ------------------------------------------------ handleProvingKeyRequest
\* The proving keys a peer may ask for, as the bytes of the request.
Keys == {<<"K">>}

ErrNotFound == "ErrNotFound"

\* keyStore.GetProvingKey and keyStore.GetStagedProvingKey: the error returned
\* with the value.  nil for a key the store has, store.ErrNotFound for one it
\* has not, another error when the lookup itself fails.
LookupErr(ks, key, fails) ==
  IF fails THEN "error" ELSE IF key \in ks THEN "nil" ELSE ErrNotFound

\* Lines 453 and 464: errors.Is(err, store.ErrNotFound).
IsNotFound(err) == err = ErrNotFound

\* Lines 464-480: with the error of GetStagedProvingKey the handler returns
\* at line 471 when the error is not ErrNotFound, which a nil error is not,
\* and at line 479 when it is ErrNotFound.
ReturnsAfterStaged(err) == IF ~IsNotFound(err) THEN TRUE ELSE err # "nil"

\* Line 482: proto.Unmarshal(inclusion.Data, provingKey) is called with the
\* nil provingKey of line 450.  What the library does with a nil message is
\* not this file's: it panics on the nil pointer, returns an error, or returns
\* nil having bound nothing.
NilUnmarshalOutcomes == {"panic", "error", "ok"}

\* What publishMessage sends for a proving key announcement; provingKey is Nil
\* for the unbound pointer.
PubKey(topic, provingKey) ==
  [topic |-> topic, type |-> ProvingKeyAnnouncementType, provingKey |-> provingKey]

\* Every return of the handler is `return nil`.
PkReturn(t) ==
  /\ pc' = [pc EXCEPT ![t] = "idle"]
  /\ ret' = [ret EXCEPT ![t] = Wrap("nil")]
  /\ herr' = [herr EXCEPT ![t] = "nil"]

PkPanic(t) ==
  /\ pc' = [pc EXCEPT ![t] = "panic"]
  /\ ret' = [ret EXCEPT ![t] = "panic"]
  /\ herr' = [herr EXCEPT ![t] = "panic"]

\* Lines 419-441: drop the local peer's request, one that does not decode
\* and one for an empty key; subscribe the per-peer topic.  The handler then
\* waits for the key store.
PkEnter(t) ==
  /\ pc[t] = "pk_req"
  /\ LET m == msg[t]
     IN IF IsLocalPeer(m.from) \/ ~m.payloadOk \/ Len(m.provingKeyBytes) = 0
          THEN PkReturn(t) /\ UNCHANGED subscriptions
          ELSE /\ subscriptions' = subscriptions \cup {PeerTopic(m.from)}
               /\ pc' = [pc EXCEPT ![t] = "pk_get"]
               /\ UNCHANGED <<ret, herr>>
  /\ hist' = [hist EXCEPT ![t].calls = Append(@, "handleProvingKeyRequest")]
  /\ UNCHANGED <<engine, store, keys, now, inbox, msg, rs, rq, pk, published>>

\* Lines 450-461 and 481-492: GetProvingKey returns.  With an error other
\* than ErrNotFound the handler returns; with ErrNotFound it goes on to the
\* staged keys; with the key found it unmarshals into the provingKey of line
\* 450, which is nil, and goes on to publish.
PkGet(t) ==
  /\ pc[t] = "pk_get"
  /\ LET m == msg[t]
         n == pk[t].ops
         err == LookupErr(keyStore, m.provingKeyBytes, CallFails(m, n + 1))
     IN /\ pk' = [pk EXCEPT ![t].ops = n + 1]
        /\ IF err # "nil"
             THEN /\ UNCHANGED hist
                  /\ IF ~IsNotFound(err)
                       THEN PkReturn(t)
                       ELSE /\ pc' = [pc EXCEPT ![t] = "pk_staged"]
                            /\ UNCHANGED <<ret, herr>>
             ELSE /\ hist' = [hist EXCEPT ![t].nilDeref = TRUE]
                  /\ \E outcome \in NilUnmarshalOutcomes :
                       IF outcome = "panic"
                         THEN PkPanic(t)
                         ELSE IF outcome = "error"
                           THEN PkReturn(t)
                           ELSE /\ pc' = [pc EXCEPT ![t] = "pk_publish"]
                                /\ UNCHANGED <<ret, herr>>
  /\ UNCHANGED <<engine, store, keys, now, subscriptions, inbox, msg, rs, rq,
                 published>>

\* Lines 463-480: GetStagedProvingKey returns and binds provingKey.
PkStaged(t) ==
  /\ pc[t] = "pk_staged"
  /\ LET m == msg[t]
         n == pk[t].ops
         err == LookupErr(stagedKeyStore, m.provingKeyBytes, CallFails(m, n + 1))
     IN /\ pk' = [pk EXCEPT
                    ![t].ops = n + 1,
                    ![t].provingKey = IF err = "nil" THEN m.provingKeyBytes ELSE Nil]
        /\ IF ReturnsAfterStaged(err)
             THEN PkReturn(t)
             ELSE /\ pc' = [pc EXCEPT ![t] = "pk_publish"]
                  /\ UNCHANGED <<ret, herr>>
  /\ UNCHANGED <<engine, store, keys, now, subscriptions, inbox, msg, rs, rq,
                 published, hist>>

\* Lines 494-501: publish provingKey on the per-peer topic; nil is returned
\* whether the publish fails or not.
PkPublish(t) ==
  /\ pc[t] = "pk_publish"
  /\ LET m == msg[t]
         n == pk[t].ops
     IN /\ pk' = [pk EXCEPT ![t].ops = n + 1]
        /\ IF CallFails(m, n + 1)
             THEN UNCHANGED published
             ELSE published' = [published EXCEPT ![t] =
                    Append(@, PubKey(PeerTopic(m.from), pk[t].provingKey))]
  /\ PkReturn(t)
  /\ UNCHANGED <<engine, store, keys, now, subscriptions, inbox, msg, rs, rq, hist>>

ProvingKeyRequest(t) ==
  \/ PkEnter(t)
  \/ PkGet(t)
  \/ PkStaged(t)
  \/ PkPublish(t)

\* ------------------------------------------- handlers outside this file
\* handleClockFrameData, handleProvingKey and handleKeyBundle are called by
\* handleSync and return an error or nil; what they do to the engine and the
\* stores is not modelled.
ExtHandlerName(p) ==
  CASE p = "clock_frame" -> "handleClockFrameData"
    [] p = "proving_key" -> "handleProvingKey"
    [] p = "key_bundle" -> "handleKeyBundle"

ExtHandler(t) ==
  /\ pc[t] \in {"clock_frame", "proving_key", "key_bundle"}
  /\ LET err == IF CallFails(msg[t], 1) THEN "handler" ELSE "nil"
     IN /\ ret' = [ret EXCEPT ![t] = Wrap(err)]
        /\ herr' = [herr EXCEPT ![t] = err]
  /\ pc' = [pc EXCEPT ![t] = "idle"]
  /\ hist' = [hist EXCEPT ![t].calls = Append(@, ExtHandlerName(pc[t]))]
  /\ UNCHANGED <<engine, store, keys, now, subscriptions, inbox, msg, rs, rq,
                 pk, published>>

\* ------------------------------------------------------- entry points
\* A handler called with (peerID, address, any) by a caller other than
\* handleSync, which has decoded the envelope; the caller runs in the task of
\* a subscription, as handleSync does.
DirectEntry(typeUrl) ==
  CASE typeUrl = ClockFramesResponseType -> "resp"
    [] typeUrl = ClockFramesRequestType -> "req"
    [] typeUrl = ProvingKeyRequestType -> "pk_req"
    [] OTHER -> "idle"

DirectCall(t) ==
  /\ pc[t] = "idle"
  /\ t \in subscriptions
  /\ inbox[t] # <<>>
  /\ LET m == Head(inbox[t])
     IN /\ m.envOk
        /\ DirectEntry(m.tag) # "idle"
        /\ inbox' = [inbox EXCEPT ![t] = Tail(@)]
        /\ msg' = [msg EXCEPT ![t] = m]
        /\ pc' = [pc EXCEPT ![t] = DirectEntry(m.tag)]
  /\ ret' = [ret EXCEPT ![t] = "running"]
  /\ herr' = [herr EXCEPT ![t] = "none"]
  /\ rs' = [rs EXCEPT ![t] = RsInit]
  /\ rq' = [rq EXCEPT ![t] = RqInit]
  /\ pk' = [pk EXCEPT ![t] = PkInit]
  /\ published' = [published EXCEPT ![t] = <<>>]
  /\ hist' = [hist EXCEPT ![t] =
                [HistInit EXCEPT !.entry = "direct", !.pre = Pre]]
  /\ now' = now + 1
  /\ UNCHANGED <<engine, store, keys, subscriptions>>

\* The request of a proving key.
WithKey(m, key) == [m EXCEPT !.provingKeyBytes = key]

EntryTags ==
  {ClockFrameType, ClockFramesResponseType, ClockFramesRequestType,
   ProvingKeyAnnouncementType, KeyBundleAnnouncementType,
   ProvingKeyRequestType, UnknownType}

\* Messages of every type from every peer, the local peer included.
EntryMsgs ==
  {[m EXCEPT !.from = p] :
     m \in {r \in ResponseMsgs : Len(r.clockFrames) <= 1}, p \in Peers}
  \cup
  {[m EXCEPT !.from = p] : m \in RequestMsgs, p \in Peers}
  \cup
  {WithKey(MkMsg(p, ProvingKeyRequestType, TRUE, ok, <<>>, k,
                 IF k = 0 THEN "none" ELSE "call", 0, 0), key) :
     p \in Peers, ok \in BOOLEAN, k \in 0..3, key \in {<<>>} \cup Keys}
  \cup
  {MkMsg(p, tag, envOk, TRUE, <<>>, k, IF k = 0 THEN "none" ELSE "call", 0, 0) :
     p \in Peers, tag \in EntryTags, envOk \in BOOLEAN, k \in 0..1}

\* What is in flight on the sync target's per-peer topic: nothing, or a
\* response batch of one frame, handled by the topic's own task once a handler
\* has subscribed the topic.
EntryWaiting ==
  {<<>>,
   <<MkMsg(Target, ClockFramesResponseType, TRUE, TRUE,
           <<MkFrame(1, "A", <<"r", "A", 1>>, <<0>>, 1)>>, 0, "none", 0, 0)>>}

\* One message in flight on the broadcast topic, delivered to handleSync or to
\* the handler for its type; a store with a finalized chain and candidates
\* above it, every prover in the trie, any key store.
InitEntry ==
  /\ InitTasks
  /\ keyStore \in SUBSET Keys
  /\ stagedKeyStore \in SUBSET Keys
  /\ syncingStatus = SyncStatusAwaitingResponse
  /\ syncingTarget = Target
  /\ frame = 0
  /\ frameProverTrie = [p \in Provers |-> [earliest |-> 0, latest |-> 0, count |-> 1]]
  /\ frameSeenProverTrie = EmptyTrie
  /\ finalized = FinalizedChain(1)
  /\ candidates = CandidateTree(<<1>>, 1, 2, 1)
  /\ subscriptions = {Broadcast}
  /\ \E m \in EntryMsgs, w \in EntryWaiting :
       inbox = [t \in Topics |->
                  IF t = Broadcast THEN <<m>>
                  ELSE IF t = PeerTopic(Target) THEN w ELSE <<>>]

NextEntry ==
  \E t \in Topics :
    \/ HandleSync(t)
    \/ DirectCall(t)
    \/ Response(t)
    \/ Request(t)
    \/ ProvingKeyRequest(t)
    \/ ExtHandler(t)

SpecEntry == InitEntry /\ [][NextEntry]_vars

\* ------------------------------------------------------------ properties
\* handleSync has returned on task t.
Returned(t) == pc[t] = "idle" /\ ret[t] \in {"nil", "error"}

\* Task t has run handleClockFramesResponse past the sync-target gate.
Accepted(t) == msg[t].tag = ClockFramesResponseType /\ hist[t].entered

\* C1: every frame the response handler has persisted as a candidate was, when
\* it was checked, the frame of a prover that the batch's trie copy held with
\* count > 0 and an earliest frame below the frame's number; the candidate
\* store holds no frame that did not pass this check.
C1_PersistedPassedMembership ==
  /\ \A t \in Topics : \A j \in 1..Len(hist[t].committed) :
       /\ j <= Len(hist[t].checked)
       /\ hist[t].committed[j] = msg[t].clockFrames[j]
       /\ hist[t].checked[j].count > 0
       /\ hist[t].checked[j].earliest < hist[t].committed[j].frameNumber
  /\ \A f \in candidates : \E t \in Topics : \E j \in 1..Len(hist[t].committed) :
       /\ hist[t].committed[j] = f
       /\ hist[t].checked[j].count > 0
       /\ hist[t].checked[j].earliest < f.frameNumber

\* Two frames of one prover persisted from one batch.
C1_Witness ==
  \E t \in Topics :
    /\ Len(hist[t].committed) = 2
    /\ hist[t].committed[1].prover = hist[t].committed[2].prover
    /\ hist[t].committed[2] \in candidates

\* The batch's trie copy after the adds for the first j frames.
RECURSIVE SnapshotAfter(_, _, _)
SnapshotAfter(trie, frames, j) ==
  IF j = 0 THEN trie
  ELSE TrieAdd(SnapshotAfter(trie, frames, j - 1),
               frames[j].prover, frames[j].frameNumber)

\* Frame i of the batch passes membership, verification and persistence.
FramePasses(m, trie, i) ==
  LET e == SnapshotAfter(trie, m.clockFrames, i - 1)[m.clockFrames[i].prover]
  IN /\ m.faultAt # i
     /\ e.count > 0
     /\ e.earliest < m.clockFrames[i].frameNumber

\* The number of frames before the first one that does not pass.
PrefixLength(m, trie) ==
  LET n == Len(m.clockFrames)
      bad == {i \in 1..n : ~FramePasses(m, trie, i)}
  IN IF bad = {} THEN n ELSE (CHOOSE i \in bad : \A j \in bad : i <= j) - 1

\* The copy of the prover trie of lines 170-178 failed for the message.
SnapshotFailed(m) == m.faultAt = 0 /\ m.faultKind \in SnapshotFaults

\* C2, with the failure of the trie copy: when the handler returns from a
\* decoded batch of the sync target whose trie copy failed, it has committed
\* nothing, added nothing to the live trie and returned an error; otherwise
\* the frames it committed are exactly the frames before the first one failing
\* membership, verification or persistence, the candidate store holds exactly
\* them, the live trie received one add per frame of that prefix in batch
\* order and no other, and an error is returned iff some frame failed.
C2_PrefixOrSnapshotError ==
  \A t \in Topics :
    (Returned(t) /\ Accepted(t) /\ msg[t].payloadOk) =>
      LET fs == msg[t].clockFrames
          failed == SnapshotFailed(msg[t])
          k == IF failed THEN 0 ELSE PrefixLength(msg[t], frameProverTrie)
      IN /\ hist[t].committed = SubSeq(fs, 1, k)
         /\ candidates = {fs[j] : j \in 1..k}
         /\ hist[t].adds = [j \in 1..k |-> <<fs[j].prover, fs[j].frameNumber>>]
         /\ frameSeenProverTrie = SnapshotAfter(EmptyTrie, fs, k)
         /\ (ret[t] = "error") <=> (failed \/ k < Len(fs))

\* C2 as stated: when the handler returns from a decoded batch of the sync
\* target, the frames it committed are exactly the frames before the first one
\* failing membership, verification or persistence, the candidate store holds
\* exactly them, the live trie received one add per frame of that prefix in
\* batch order and no other, and an error is returned iff some frame failed.
C2_PrefixPersisted ==
  \A t \in Topics :
    (Returned(t) /\ Accepted(t) /\ msg[t].payloadOk) =>
      LET fs == msg[t].clockFrames
          k == PrefixLength(msg[t], frameProverTrie)
      IN /\ hist[t].committed = SubSeq(fs, 1, k)
         /\ candidates = {fs[j] : j \in 1..k}
         /\ hist[t].adds = [j \in 1..k |-> <<fs[j].prover, fs[j].frameNumber>>]
         /\ frameSeenProverTrie = SnapshotAfter(EmptyTrie, fs, k)
         /\ (ret[t] = "error") <=> (k < Len(fs))

\* A batch of two whose first frame was persisted and whose second failed.
C2_Witness ==
  \E t \in Topics :
    /\ Returned(t) /\ Accepted(t)
    /\ Len(msg[t].clockFrames) = 2
    /\ Len(hist[t].committed) = 1
    /\ Len(hist[t].adds) = 1
    /\ ret[t] = "error"

\* C3: the step of handleClockFramesResponse on a response whose sender is
\* not the sync target returns nil and changes neither the sync status and
\* target, the frame bookkeeping, the two prover tries nor the clock store.
C3_OffTargetDropped ==
  [][\A t \in Topics :
       (/\ pc[t] = "resp"
        /\ msg[t].from # syncingTarget
        /\ pc'[t] # pc[t])
       => /\ pc'[t] = "idle"
          /\ ret'[t] = "nil"
          /\ UNCHANGED <<engine, store>>]_vars

\* An off-target response carrying frames was dropped while a response was
\* awaited.
C3_Witness ==
  \E t \in Topics :
    /\ Returned(t)
    /\ msg[t].tag = ClockFramesResponseType
    /\ msg[t].from = Other
    /\ Len(msg[t].clockFrames) > 0
    /\ ret[t] = "nil"
    /\ syncingStatus = SyncStatusAwaitingResponse
    /\ candidates = {}

\* C4: every frame of an accepted response is processed with the sync status
\* Synchronizing, and once the handler has returned, by whatever path, the
\* sync status is NotSyncing.
C4_StatusScoped ==
  \A t \in Topics :
    /\ \A j \in 1..Len(hist[t].statusAtFrame) :
         hist[t].statusAtFrame[j] = SyncStatusSynchronizing
    /\ pc[t] \in {"resp_decode", "resp_frame", "resp_verify", "resp_persist",
                  "resp_apply"}
         => syncingStatus = SyncStatusSynchronizing
    /\ (Returned(t) /\ Accepted(t)) => syncingStatus = SyncStatusNotSyncing

\* The handler returned an error in the middle of a batch.
C4_Witness ==
  \E t \in Topics :
    /\ Returned(t) /\ Accepted(t)
    /\ ret[t] = "error"
    /\ Len(hist[t].committed) >= 1
    /\ syncingStatus = SyncStatusNotSyncing

\* Task t is in handleClockFramesResponse between the assignment of
\* Synchronizing (line 161) and its return.
InProgress(t) ==
  pc[t] \in {"resp_decode", "resp_frame", "resp_verify", "resp_persist", "resp_apply"}

\* C5: at most one invocation of handleClockFramesResponse is between setting
\* the sync status to Synchronizing and returning, whatever the number of
\* topics handleSync is subscribed on.
C5_BatchesNeverInterleave ==
  Cardinality({t \in Topics : InProgress(t)}) <= 1

\* Task t has run handleClockFramesRequest on a decoded request of a peer.
Served(t) ==
  /\ msg[t].tag = ClockFramesRequestType
  /\ msg[t].from # Self
  /\ msg[t].envOk
  /\ msg[t].payloadOk

\* The frames published by the current invocation on task t, in order.
PublishedFrames(t) ==
  SelectSeq(published[t], LAMBDA p : p.type = ClockFrameType)

\* The request's base frame was found.
BaseFound(t) ==
  /\ Served(t)
  /\ ~CallFails(msg[t], 1)
  /\ HasDataClockFrame(finalized, Filter, msg[t].fromFrameNumber)

\* C6: a request never has more than 32 frames published for it.
C6_AtMost32Frames ==
  \A t \in Topics : Len(PublishedFrames(t)) <= 32

\* The frames that a chain of finalized or candidate frames links to the
\* frame `base`, up to height `top`.
RECURSIVE ChainFrom(_, _)
ChainFrom(level, top) ==
  LET above == {f \in finalized \cup candidates :
                  /\ f.frameNumber <= top
                  /\ \E g \in level : /\ f.parentSelector = g.selector
                                      /\ f.frameNumber = g.frameNumber + 1}
  IN IF above = {} THEN level ELSE level \cup ChainFrom(above, top)

\* C7: when a request whose base frame is finalized has been served without
\* error, every height of [from, to] that a chain of finalized or candidate
\* frames reaches from the base, the height `from` included, has a frame
\* published on the topic of the requesting peer.
C7_EveryReachableHeightPublished ==
  \A t \in Topics :
    (Returned(t) /\ BaseFound(t) /\ ret[t] = "nil") =>
      LET base == GetDataClockFrame(finalized, Filter, msg[t].fromFrameNumber)
          P == PublishedFrames(t)
      IN \A f \in ChainFrom({base}, rq[t].to) :
           \E i \in 1..Len(P) :
             /\ P[i].frame.frameNumber = f.frameNumber
             /\ P[i].topic = PeerTopic(msg[t].from)

\* The frames of a sequence of publishes.
FramesOf(P) == [i \in 1..Len(P) |-> P[i].frame]

\* The position in F of the frame with the selector F[i].parentSelector, 0 for
\* a frame not in F (the base is never among the published frames).
ParentPosition(F, i) ==
  LET at == {k \in 1..Len(F) : F[k].selector = F[i].parentSelector}
  IN IF at = {} THEN 0 ELSE CHOOSE k \in at : TRUE

\* C8: the frames published for a request come level by level: heights never
\* decrease along the publishes; a published finalized frame is the only frame
\* published at its height, and a request served without error has exactly one
\* frame published at each height above `from` up to `to` that has a finalized
\* frame; a published candidate's parent is the base frame or a frame
\* published one level below it; and of two candidates of one height, the one
\* whose parent was published first comes first, and under one parent the one
\* with the smaller distance comes first.
C8_BreadthFirstOrder ==
  \A t \in Topics :
    LET F == FramesOf(PublishedFrames(t))
        pos == [i \in 1..Len(F) |-> ParentPosition(F, i)]
        fin == [i \in 1..Len(F) |-> F[i] \in finalized]
    IN /\ \A i, j \in 1..Len(F) :
            i < j =>
              /\ F[i].frameNumber <= F[j].frameNumber
              /\ (fin[i] \/ fin[j]) => F[i].frameNumber < F[j].frameNumber
              /\ (F[i].frameNumber = F[j].frameNumber /\ ~fin[i])
                   => /\ pos[i] <= pos[j]
                      /\ pos[i] = pos[j] => F[i].distance < F[j].distance
       /\ \A i \in 1..Len(F) :
            ~fin[i] =>
              \E g \in finalized \cup candidates :
                /\ g.selector = F[i].parentSelector
                /\ g.frameNumber + 1 = F[i].frameNumber
                /\ \/ /\ g.frameNumber = msg[t].fromFrameNumber
                      /\ g \in finalized
                   \/ /\ pos[i] \in 1..(i - 1)
                      /\ F[pos[i]] = g
       /\ (Returned(t) /\ BaseFound(t) /\ ret[t] = "nil") =>
            \A f \in finalized :
              (/\ msg[t].fromFrameNumber < f.frameNumber
               /\ U64Leq(f.frameNumber, rq[t].to)
               /\ rq[t].to >= 0)
              => \E i \in 1..Len(F) :
                   /\ F[i] = f
                   /\ \A j \in 1..Len(F) :
                        F[j].frameNumber = f.frameNumber => j = i

\* A finalized frame was published, then two levels of candidates, the second
\* with two candidates under one parent followed by one under another.
C8_Witness ==
  \E t \in Topics :
    LET F == FramesOf(PublishedFrames(t))
    IN /\ Returned(t) /\ ret[t] = "nil"
       /\ \E h, i, j, k \in 1..Len(F) :
            /\ h < i /\ i < j /\ j < k
            /\ F[h] \in finalized
            /\ F[i].frameNumber = F[k].frameNumber
            /\ F[i].parentSelector = F[j].parentSelector
            /\ F[j].parentSelector # F[k].parentSelector
            /\ ParentPosition(F, i) > h

\* C9: no frame published for a request has a height below `from` or above
\* `from + 31`, in the order of unsigned 64-bit numbers.
C9_HeightsWithin32 ==
  \A t \in Topics :
    LET F == FramesOf(PublishedFrames(t))
    IN \A i \in 1..Len(F) :
         /\ ~U64Less(F[i].frameNumber, msg[t].fromFrameNumber)
         /\ ~U64Greater(F[i].frameNumber, msg[t].fromFrameNumber + 31)

\* The finalized lookup of the request's `from` returned ErrNotFound.
BaseNotFound(t) ==
  /\ Served(t)
  /\ ~CallFails(msg[t], 1)
  /\ ~HasDataClockFrame(finalized, Filter, msg[t].fromFrameNumber)

\* C10 as stated: after ErrNotFound for the base the handler has published
\* exactly the empty response on the per-peer topic, has made no other store
\* lookup and has returned nil.
C10_AsStated ==
  \A t \in Topics :
    (Returned(t) /\ BaseNotFound(t)) =>
      /\ published[t] = <<PubResponse(PeerTopic(msg[t].from), 0, 0, <<>>)>>
      /\ hist[t].lookups = 1
      /\ ret[t] = "nil"

\* C10 (amended): after ErrNotFound for the base the handler makes no other
\* store lookup and publishes no frame; it publishes the empty response
\* (from 0, to 0, no frames) on the per-peer topic as its only message and
\* returns nil, unless that publish fails, and then it has published nothing
\* and returns the error.
C10_EmptyResponseOrPublishError ==
  \A t \in Topics :
    (Returned(t) /\ BaseNotFound(t)) =>
      /\ hist[t].lookups = 1
      /\ PublishedFrames(t) = <<>>
      /\ IF CallFails(msg[t], 2)
           THEN published[t] = <<>> /\ ret[t] = "error"
           ELSE /\ published[t] =
                     <<PubResponse(PeerTopic(msg[t].from), 0, 0, <<>>)>>
                /\ ret[t] = "nil"

\* The empty response went out for a request above the finalized chain.
C10_Witness ==
  \E t \in Topics :
    /\ Returned(t) /\ BaseNotFound(t)
    /\ finalized # {}
    /\ msg[t].fromFrameNumber = 2
    /\ msg[t].toFrameNumber = 4
    /\ Len(published[t]) = 1
    /\ ret[t] = "nil"

\* ------------------------------------------------------------------ C11
\* The handler is over: it has returned or it has panicked.
Finished(t) == Returned(t) \/ pc[t] = "panic"

\* C11: a frame whose number of aggregate proofs differs from the number of
\* commitments parsed from its input is rejected: once the handler is over
\* with such a frame among those it took up, it has returned an error and the
\* frame is not a candidate.
C11_ProofCountMismatchRejected ==
  \A t \in Topics :
    Finished(t) =>
      \A j \in 1..Len(hist[t].checked) :
        LET f == msg[t].clockFrames[j]
        IN f.aggregateProofs # CommitmentCount(f.inputLen) =>
             ret[t] = "error" /\ f \notin candidates

\* ------------------------------------------------------------------ C12
\* C12: a frame whose input is shorter than 516 bytes or whose length above
\* 516 is not a multiple of 74 is rejected: once the handler is over with
\* such a frame among those it took up, it has returned an error and the
\* frame is not a candidate.  Stated for frames with as many proofs as the
\* loop parses commitments, so that the proof loop stays in range.
C12_MalformedInputRejected ==
  \A t \in Topics :
    Finished(t) =>
      \A j \in 1..Len(hist[t].checked) :
        LET f == msg[t].clockFrames[j]
        IN (/\ ~(f.inputLen >= 516 /\ (f.inputLen - 516) % 74 = 0)
            /\ f.aggregateProofs = CommitmentCount(f.inputLen)) =>
             ret[t] = "error" /\ f \notin candidates

\* ------------------------------------------------------------------ C13
\* C13: a message from the local peer is dropped at every entry point.
\* Whether it came in through handleSync or by a call of a handler, the task
\* is at the entry or back from it; handleSync has called no handler; nothing
\* is published; the engine's fields (sync status and target, tries), the
\* stores and the subscriptions are what they were on entry; and what is
\* returned is nil.
C13_OwnMessagesDropped ==
  \A t \in Topics :
    (hist[t].entry # "none" /\ msg[t].from = Self) =>
      /\ pc[t] \in {"idle", "resp", "req", "pk_req"}
      /\ hist[t].entry = "handleSync" => (pc[t] = "idle" /\ hist[t].calls = <<>>)
      /\ Len(hist[t].calls) <= 1
      /\ published[t] = <<>>
      /\ Pre = hist[t].pre
      /\ ret[t] \in {"running", "nil"}
      /\ pc[t] = "idle" => ret[t] = "nil"

\* A proving key request of the local peer for a key, well-formed in every
\* other respect, handed to handleProvingKeyRequest, has been dropped.
C13_Witness ==
  \E t \in Topics :
    /\ Returned(t)
    /\ hist[t].entry = "direct"
    /\ msg[t].from = Self
    /\ msg[t].tag = ProvingKeyRequestType
    /\ msg[t].payloadOk
    /\ msg[t].provingKeyBytes \in Keys
    /\ hist[t].calls = <<"handleProvingKeyRequest">>

\* ------------------------------------------------------------------ C14
\* C14: for a message of another peer that decodes as an envelope, handleSync
\* calls exactly one handler, the one of the payload's type, and returns nil
\* when the handler returns nil and an error when it returns an error; for a
\* type that has no handler it calls none, leaves the engine, the stores and
\* the subscriptions as they were, publishes nothing and returns nil.
C14_OneHandlerByTag ==
  \A t \in Topics :
    LET m == msg[t]
        expected ==
          CASE m.tag = ClockFrameType -> <<"handleClockFrameData">>
            [] m.tag = ClockFramesResponseType -> <<"handleClockFramesResponse">>
            [] m.tag = ClockFramesRequestType -> <<"handleClockFramesRequest">>
            [] m.tag = ProvingKeyAnnouncementType -> <<"handleProvingKey">>
            [] m.tag = KeyBundleAnnouncementType -> <<"handleKeyBundle">>
            [] OTHER -> <<>>
    IN (hist[t].entry = "handleSync" /\ m.from # Self /\ m.envOk) =>
         /\ hist[t].calls \in {<<>>, expected}
         /\ Returned(t) =>
              /\ hist[t].calls = expected
              /\ expected # <<>> =>
                   /\ herr[t] # "none"
                   /\ ret[t] = (IF herr[t] = "nil" THEN "nil" ELSE "error")
              /\ expected = <<>> =>
                   /\ ret[t] = "nil"
                   /\ published[t] = <<>>
                   /\ Pre = hist[t].pre

\* handleSync has returned the error of handleKeyBundle.
C14_Witness ==
  \E t \in Topics :
    /\ Returned(t)
    /\ hist[t].entry = "handleSync"
    /\ msg[t].from = Target
    /\ msg[t].envOk
    /\ msg[t].tag = KeyBundleAnnouncementType
    /\ hist[t].calls = <<"handleKeyBundle">>
    /\ herr[t] = "handler"
    /\ ret[t] = "error"

\* ------------------------------------------------------------------ C15
\* C15: every iterator handleClockFramesRequest opens is closed before the
\* handler returns: no returned invocation has an iterator still open.
C15_IteratorClosedOnReturn ==
  \A t \in Topics : Returned(t) => ~rq[t].iterOpen

\* ------------------------------------------------------------------ C16
\* C16: every transaction handleClockFramesResponse opens is committed or
\* aborted before the handler returns: no returned invocation has a
\* transaction still open.
C16_TransactionClosedOnReturn ==
  \A t \in Topics : Returned(t) => rs[t].txn # "open"

\* ------------------------------------------------------------------ C17
\* C17: within one batch the membership check of every frame gives, on the
\* trie copy as the adds for the frames before it have left it, what it gives
\* on the snapshot taken when the batch started.
C17_DecisionsAsOnSnapshot ==
  \A t \in Topics :
    LET fs == msg[t].clockFrames
        snapshot == Deserialize(Serialize(frameProverTrie))
    IN \A j \in 1..Len(hist[t].checked) :
         LET mutated == hist[t].checked[j]
             initial == TrieGet(snapshot, fs[j].prover)
             n == fs[j].frameNumber
         IN (mutated.count = 0 \/ mutated.earliest >= n)
              <=> (initial.count = 0 \/ initial.earliest >= n)

\* The second frame of a batch was checked against an entry that the add for
\* the first frame, of the same prover, had changed.
C17_Witness ==
  \E t \in Topics :
    /\ Returned(t)
    /\ Len(hist[t].checked) = 2
    /\ msg[t].clockFrames[1].prover = msg[t].clockFrames[2].prover
    /\ hist[t].checked[2] # TrieGet(frameProverTrie, msg[t].clockFrames[2].prover)
    /\ hist[t].checked[2].count = 2

\* ------------------------------------------------------------------ C18
\* C18: at the step in which handleClockFramesResponse returns,
\* latestFrameReceived is the frame number of the last frame the invocation
\* persisted whose number is above the local head, and it and
\* lastFrameReceivedAt are what they were on entry when the invocation
\* persisted no frame above the head; the head is what it was on entry.
C18_LatestFrameReceived ==
  [][\A t \in Topics :
       (/\ msg[t].tag = ClockFramesResponseType
        /\ hist[t].entry # "none"
        /\ pc[t] # "idle"
        /\ pc'[t] = "idle")
       => LET before == hist[t].pre.engine
              headBefore == before[3]
              latestBefore == before[4]
              atBefore == before[5]
              persisted == hist'[t].committed
              ahead == {j \in 1..Len(persisted) :
                          persisted[j].frameNumber > headBefore}
              last == CHOOSE j \in ahead : \A k \in ahead : k <= j
          IN /\ frame' = headBefore
             /\ IF ahead = {}
                  THEN /\ latestFrameReceived' = latestBefore
                       /\ lastFrameReceivedAt' = atBefore
                  ELSE latestFrameReceived' = persisted[last].frameNumber]_vars

\* ------------------------------------------------------------------ C19
\* C19: handleProvingKeyRequest publishes only a proving key announcement
\* that is bound: no invocation of it has published the unbound value, has
\* handed the unbound value to Unmarshal or has panicked, and one that has
\* returned for a key in neither store has published nothing and returned nil.
C19_PublishesOnlyBoundKey ==
  \A t \in Topics :
    hist[t].calls = <<"handleProvingKeyRequest">> =>
      /\ \A i \in 1..Len(published[t]) : published[t][i].provingKey # Nil
      /\ ~hist[t].nilDeref
      /\ pc[t] # "panic"
      /\ (/\ Returned(t)
          /\ msg[t].provingKeyBytes \notin keyStore
          /\ msg[t].provingKeyBytes \notin stagedKeyStore) =>
           published[t] = <<>> /\ ret[t] = "nil"

\* ------------------------------------------------------------------ C20
\* C20: a request of another peer for a key that the key store does not have
\* and the staged key store has, with no lookup failing, has that key
\* published on the requester's topic by the time the handler has returned.
C20_StagedKeyPublished ==
  \A t \in Topics :
    (/\ Returned(t)
     /\ hist[t].calls = <<"handleProvingKeyRequest">>
     /\ msg[t].from # Self
     /\ msg[t].payloadOk
     /\ msg[t].faultAt = 0
     /\ msg[t].provingKeyBytes \in Keys
     /\ msg[t].provingKeyBytes \notin keyStore
     /\ msg[t].provingKeyBytes \in stagedKeyStore) =>
      \E i \in 1..Len(published[t]) :
        published[t][i] = PubKey(PeerTopic(msg[t].from), msg[t].provingKeyBytes)
====
